---- MODULE Spec2Model ----
(***************************************************************************)
(* EVSS (evaluation-based verifiable secret sharing) and the polynomial    *)
(* accumulator built on it, as state machines over a small prime field.    *)
(*                                                                         *)
(* The crate is generic over a Field, a univariate Polynomial and a        *)
(* PolynomialCommitment; the three are external collaborators.  The field  *)
(* is GF(P), polynomials are dense coefficient sequences, and the          *)
(* commitment scheme is an ideal one: a commitment is an opaque handle on  *)
(* the committed polynomial, a proof is an opaque handle on one opening.   *)
(* Every call of the commitment scheme may fail (the `fault` it is given). *)
(***************************************************************************)
EXTENDS Integers, Sequences, FiniteSets, TLC

VARIABLES
    params,   \* what setup returned: None, Ok(EVSSParams) or Err
    input,    \* what the dealer committed: the secret, or the credential slice
    poly,     \* what commit returned: None, Ok(EVSSPolynomial) or Err
    shares,   \* the Vec of shares / witnesses issued so far, in order
    last      \* the last operation: its name, its argument, what it handed back

vars == << params, input, poly, shares, last >>

\* ------------------------------------------------------------------ bounds

\* Order of the scalar field (F381 in the crate, scaled down to a small prime).
P == 5
\* Largest `degree` handed to setup.
MaxDegree == 3
\* Largest number of shares handed to reconstruct.
MaxCollected == 3
\* Largest number of shares / witnesses issued in one session.
MaxShares == 2
\* Largest credential slice handed to the accumulator's commit.
MaxCreds == 2

\* --------------------------------------------------------- Field capability

F == 0 .. (P - 1)

FAdd(a, b) == (a + b) % P
FNeg(a) == (P - a) % P
FSub(a, b) == FAdd(a, FNeg(b))
FMul(a, b) == (a * b) % P
\* inverse() of a nonzero element; zero has none (the crate's `/` would panic).
FInv(a) == CHOOSE b \in F : FMul(a, b) = 1
FDiv(a, b) == FMul(a, FInv(b))

\* ---------------------------------------------------- Polynomial capability

\* Dense polynomials: coefficient sequences, lowest degree first, without
\* trailing zero coefficients (the zero polynomial is << >>).
RECURSIVE Truncate(_)
Truncate(c) ==
    IF c = << >> THEN << >>
    ELSE IF c[Len(c)] = 0 THEN Truncate(SubSeq(c, 1, Len(c) - 1))
    ELSE c

from_coefficients_vec(c) == Truncate(c)

\* degree() of a dense polynomial: 0 for the zero polynomial.
PolyDegree(p) == IF p = << >> THEN 0 ELSE Len(p) - 1

RECURSIVE evaluate(_, _)
evaluate(p, x) ==
    IF p = << >> THEN 0
    ELSE FAdd(p[1], FMul(x, evaluate(Tail(p), x)))

RECURSIVE ConvSum(_, _, _, _)
ConvSum(a, b, k, i) ==
    IF i > Len(a) THEN 0
    ELSE FAdd(IF k - i + 1 >= 1 /\ k - i + 1 <= Len(b)
                 THEN FMul(a[i], b[k - i + 1]) ELSE 0,
              ConvSum(a, b, k, i + 1))

naive_mul(a, b) ==
    IF a = << >> \/ b = << >> THEN << >>
    ELSE Truncate([k \in 1 .. (Len(a) + Len(b) - 1) |-> ConvSum(a, b, k, 1)])

\* ------------------------------------------------------------------ results

Ok(v) == [ok |-> TRUE, val |-> v]
Err(e) == [ok |-> FALSE, err |-> e]
None == [none |-> TRUE]
IsOk(r) == r # None /\ r.ok
IsErr(r) == r # None /\ ~r.ok

\* One call of the commitment scheme, as the protocol layer sees it.
Call(op, res) == [op |-> op, res |-> res]
\* What an operation hands back: its result and the calls it made, in order.
Out(res, calls) == [result |-> res, calls |-> calls]

\* ------------------------------------------- Commitment Service (PC) capability

PC_setup(max_degree, fault) ==
    IF fault THEN Err("SetupError")
    ELSE Ok([max_degree |-> max_degree])

PC_trim(pp, supported_degree, fault) ==
    IF fault \/ supported_degree > pp.max_degree THEN Err("TrimError")
    ELSE Ok(<< [supported_degree |-> supported_degree],
               [supported_degree |-> supported_degree] >>)

PC_commit(ck, polynomial, fault) ==
    IF fault \/ PolyDegree(polynomial) > ck.supported_degree THEN Err("CommitError")
    ELSE Ok(<< [poly |-> polynomial], "rand" >>)

PC_open(ck, polynomial, commitment, point, challenge, rands, fault) ==
    IF fault \/ PolyDegree(polynomial) > ck.supported_degree THEN Err("OpenError")
    ELSE Ok([poly |-> polynomial, point |-> point,
             challenge |-> challenge, rands |-> rands])

PC_check(vk, commitment, point, value, proof, challenge, fault) ==
    IF fault THEN Err("CheckError")
    ELSE Ok(/\ proof.poly = commitment.poly
            /\ proof.rands = "rand"
            /\ proof.point = point
            /\ proof.challenge = challenge
            /\ value = evaluate(commitment.poly, point))

\* ----------------------------------------------------------------- EVSS

get_public_params(self) ==
    [degree |-> self.degree, verifier_key |-> self.verifier_key]

get_commit(self) == [commit |-> self.commit]

\* setup that trims the key to degree - 1.
EVSS_setup_TrimShort(degree, env) ==
    LET pp == PC_setup(degree, env.setup)
    IN  IF ~pp.ok THEN Out(pp, << Call("setup", pp) >>)
        ELSE LET k == PC_trim(pp.val, degree - 1, env.trim)
                 calls == << Call("setup", pp), Call("trim", k) >>
             IN  IF ~k.ok THEN Out(k, calls)
                 ELSE Out(Ok([degree |-> degree,
                              committer_key |-> k.val[1],
                              verifier_key |-> k.val[2]]), calls)

\* env.setup, env.trim: whether the service fails that call.
EVSS_setup(degree, env) ==
    LET pp == PC_setup(degree, env.setup)
    IN  IF ~pp.ok THEN Out(pp, << Call("setup", pp) >>)
        ELSE LET k == PC_trim(pp.val, degree, env.trim)
                 calls == << Call("setup", pp), Call("trim", k) >>
             IN  IF ~k.ok THEN Out(k, calls)
                 ELSE Out(Ok([degree |-> degree,
                              committer_key |-> k.val[1],
                              verifier_key |-> k.val[2]]), calls)

\* commit with the secret as the highest coefficient instead of the constant one.
EVSS_commit_SecretLast(pp, secret, env) ==
    LET vec == [i \in 1 .. pp.degree |-> IF i = pp.degree THEN secret ELSE env.rand[i]]
        p == from_coefficients_vec(vec)
        c == PC_commit(pp.committer_key, p, env.commit)
    IN  IF ~c.ok THEN Out(c, << Call("commit", c) >>)
        ELSE Out(Ok([polynomial |-> p, commit |-> c.val[1], rands |-> c.val[2]]),
                 << Call("commit", c) >>)

\* commit without the random coefficients: every coefficient but the secret is 0.
EVSS_commit_NoRand(pp, secret, env) ==
    LET vec == [i \in 1 .. pp.degree |-> IF i = 1 THEN secret ELSE 0]
        p == from_coefficients_vec(vec)
        c == PC_commit(pp.committer_key, p, env.commit)
    IN  IF ~c.ok THEN Out(c, << Call("commit", c) >>)
        ELSE Out(Ok([polynomial |-> p, commit |-> c.val[1], rands |-> c.val[2]]),
                 << Call("commit", c) >>)

\* env.rand: the stream F::rand draws from; env.commit: the service's fault.
EVSS_commit(pp, secret, env) ==
    LET vec == [i \in 1 .. pp.degree |-> IF i = 1 THEN secret ELSE env.rand[i - 1]]
        p == from_coefficients_vec(vec)
        c == PC_commit(pp.committer_key, p, env.commit)
    IN  IF ~c.ok THEN Out(c, << Call("commit", c) >>)
        ELSE Out(Ok([polynomial |-> p, commit |-> c.val[1], rands |-> c.val[2]]),
                 << Call("commit", c) >>)

\* get_share with the value taken at the challenge instead of the point.
EVSS_get_share_ValueAtChallenge(point, params_, poly_, env) ==
    LET ch == env.ch
        pr == PC_open(params_.committer_key, poly_.polynomial, poly_.commit,
                      point, ch, poly_.rands, env.open)
    IN  IF ~pr.ok THEN Out(pr, << Call("open", pr) >>)
        ELSE Out(Ok([point |-> point,
                     value |-> evaluate(poly_.polynomial, ch),
                     challenge |-> ch,
                     proof |-> pr.val]),
                 << Call("open", pr) >>)

\* env.ch: the challenge F::rand draws; env.open: the service's fault.
EVSS_get_share(point, params_, poly_, env) ==
    LET ch == env.ch
        pr == PC_open(params_.committer_key, poly_.polynomial, poly_.commit,
                      point, ch, poly_.rands, env.open)
    IN  IF ~pr.ok THEN Out(pr, << Call("open", pr) >>)
        ELSE Out(Ok([point |-> point,
                     value |-> evaluate(poly_.polynomial, point),
                     challenge |-> ch,
                     proof |-> pr.val]),
                 << Call("open", pr) >>)

\* check that reports a failure of the service as a failed verification.
EVSS_check_ErrAsFalse(params_, commit, share, env) ==
    LET r == PC_check(params_.verifier_key, commit.commit, share.point,
                      share.value, share.proof, share.challenge, env.check)
    IN  Out(IF r.ok THEN r ELSE Ok(FALSE), << Call("check", r) >>)

EVSS_check(params_, commit, share, env) ==
    LET r == PC_check(params_.verifier_key, commit.commit, share.point,
                      share.value, share.proof, share.challenge, env.check)
    IN  Out(r, << Call("check", r) >>)

\* The inner loop with the numerator's sign lost: sh2.point / (sh1.point - sh2.point).
RECURSIVE ReconstructTerm_NoNeg(_, _, _, _)
ReconstructTerm_NoNeg(shs, sh1, j, term) ==
    IF j > Len(shs) THEN term
    ELSE LET sh2 == shs[j]
         IN  ReconstructTerm_NoNeg(shs, sh1, j + 1,
                 IF sh1.point # sh2.point
                 THEN FMul(term, FDiv(sh2.point, FSub(sh1.point, sh2.point)))
                 ELSE term)

\* The inner loop of reconstruct: sh1's term over shs[j..].
RECURSIVE ReconstructTerm(_, _, _, _)
ReconstructTerm(shs, sh1, j, term) ==
    IF j > Len(shs) THEN term
    ELSE LET sh2 == shs[j]
         IN  ReconstructTerm(shs, sh1, j + 1,
                 IF sh1.point # sh2.point
                 THEN FMul(term, FDiv(FNeg(sh2.point), FSub(sh1.point, sh2.point)))
                 ELSE term)

\* The outer loop of reconstruct over shs[i..].
RECURSIVE ReconstructLoop(_, _, _)
ReconstructLoop(shs, i, res) ==
    IF i > Len(shs) THEN res
    ELSE ReconstructLoop(shs, i + 1,
             FAdd(res, ReconstructTerm(shs, shs[i], 1, shs[i].value)))

EVSS_reconstruct(shs) == ReconstructLoop(shs, 1, 0)

\* ---------------------------------------------------------- Biaccumulator

Biaccumulator_setup(degree, env) == EVSS_setup(degree, env)

\* The loop of commit with the factor (x + c) in place of (x - c).
RECURSIVE AccumulateLoop_PlusC(_, _, _)
AccumulateLoop_PlusC(cred, i, p) ==
    IF i > Len(cred) THEN p
    ELSE AccumulateLoop_PlusC(cred, i + 1,
             naive_mul(p, from_coefficients_vec(<< cred[i], 1 >>)))

\* The loop of commit: p times (x - c) for every c of cred[i..].
RECURSIVE AccumulateLoop(_, _, _)
AccumulateLoop(cred, i, p) ==
    IF i > Len(cred) THEN p
    ELSE AccumulateLoop(cred, i + 1,
             naive_mul(p, from_coefficients_vec(<< FNeg(cred[i]), 1 >>)))

Biaccumulator_commit(pp, cred, env) ==
    LET p == AccumulateLoop(cred, 1, from_coefficients_vec(<< 1 >>))
        c == PC_commit(pp.committer_key, p, env.commit)
    IN  IF ~c.ok THEN Out(c, << Call("commit", c) >>)
        ELSE Out(Ok([polynomial |-> p, commit |-> c.val[1], rands |-> c.val[2]]),
                 << Call("commit", c) >>)

Biaccumulator_create_witness(cred, params_, poly_, env) ==
    EVSS_get_share(cred, params_, poly_, env)

\* check without the test of the value: every witness goes to the service.
Biaccumulator_check_NoFastReject(params_, commit, share, env) ==
    LET r == PC_check(params_.verifier_key, commit.commit, share.point,
                      share.value, share.proof, share.challenge, env.check)
    IN  Out(r, << Call("check", r) >>)

Biaccumulator_check(params_, commit, share, env) ==
    IF share.value # 0 THEN Out(Ok(FALSE), << >>)
    ELSE LET r == PC_check(params_.verifier_key, commit.commit, share.point,
                           share.value, share.proof, share.challenge, env.check)
         IN  Out(r, << Call("check", r) >>)

\* ------------------------------------------------------------ the sessions

Init ==
    /\ params = None
    /\ input = None
    /\ poly = None
    /\ shares = << >>
    /\ last = None

Setup(degree, env) ==
    /\ params = None
    /\ LET out == EVSS_setup(degree, env)
       IN  /\ params' = out.result
           /\ last' = [op |-> "EVSS::setup", arg |-> degree, env |-> env,
                      out |-> out]
    /\ UNCHANGED << input, poly, shares >>

AccSetup(degree, env) ==
    /\ params = None
    /\ LET out == Biaccumulator_setup(degree, env)
       IN  /\ params' = out.result
           /\ last' = [op |-> "Biaccumulator::setup", arg |-> degree, env |-> env,
                      out |-> out]
    /\ UNCHANGED << input, poly, shares >>

Commit(secret, env) ==
    /\ IsOk(params)
    /\ last.op = "EVSS::setup"
    /\ poly = None
    /\ LET out == EVSS_commit(params.val, secret, env)
       IN  /\ poly' = out.result
           /\ input' = [kind |-> "secret", secret |-> secret]
           /\ last' = [op |-> "EVSS::commit", arg |-> secret, env |-> env,
                      out |-> out]
    /\ UNCHANGED << params, shares >>

AccCommit(cred, env) ==
    /\ IsOk(params)
    /\ last.op = "Biaccumulator::setup"
    /\ poly = None
    /\ LET out == Biaccumulator_commit(params.val, cred, env)
       IN  /\ poly' = out.result
           /\ input' = [kind |-> "cred", cred |-> cred]
           /\ last' = [op |-> "Biaccumulator::commit", arg |-> cred, env |-> env,
                      out |-> out]
    /\ UNCHANGED << params, shares >>

\* The caller pushes every share it is handed, as the crate's tests do.
GetShare(point, env, max) ==
    /\ IsOk(poly)
    /\ input.kind = "secret"
    /\ Len(shares) < max
    /\ LET out == EVSS_get_share(point, params.val, poly.val, env)
       IN  /\ shares' = IF out.result.ok THEN Append(shares, out.result.val) ELSE shares
           /\ last' = [op |-> "EVSS::get_share", arg |-> point, env |-> env,
                      out |-> out]
    /\ UNCHANGED << params, input, poly >>

CreateWitness(cred, env, max) ==
    /\ IsOk(poly)
    /\ input.kind = "cred"
    /\ Len(shares) < max
    /\ LET out == Biaccumulator_create_witness(cred, params.val, poly.val, env)
       IN  /\ shares' = IF out.result.ok THEN Append(shares, out.result.val) ELSE shares
           /\ last' = [op |-> "Biaccumulator::create_witness", arg |-> cred, env |-> env,
                      out |-> out]
    /\ UNCHANGED << params, input, poly >>

\* A verifier is handed share: an issued one, or one whose value was replaced.
Check(share, env) ==
    /\ IsOk(poly)
    /\ input.kind = "secret"
    /\ LET out == EVSS_check(get_public_params(params.val), get_commit(poly.val),
                             share, env)
       IN  last' = [op |-> "EVSS::check", arg |-> share, env |-> env,
                      out |-> out]
    /\ UNCHANGED << params, input, poly, shares >>

AccCheck(share, env) ==
    /\ IsOk(poly)
    /\ input.kind = "cred"
    /\ LET out == Biaccumulator_check(get_public_params(params.val),
                                      get_commit(poly.val), share, env)
       IN  last' = [op |-> "Biaccumulator::check", arg |-> share, env |-> env,
                      out |-> out]
    /\ UNCHANGED << params, input, poly, shares >>

\* reconstruct over the whole Vec; it makes no call of the service.
Reconstruct ==
    /\ IsOk(poly)
    /\ input.kind = "secret"
    /\ last.op # "EVSS::reconstruct"
    /\ last' = [op |-> "EVSS::reconstruct", arg |-> shares, env |-> None,
                out |-> Out(EVSS_reconstruct(shares), << >>)]
    /\ UNCHANGED << params, input, poly, shares >>

\* A holder's share is corrupted in the Vec: its value replaced by v.
Corrupt(i, v) ==
    /\ i \in 1 .. Len(shares)
    /\ input.kind = "secret"
    /\ shares[i].value # v
    /\ shares' = [shares EXCEPT ![i].value = v]
    /\ last' = [op |-> "corrupt", arg |-> i, env |-> None, out |-> Out(v, << >>)]
    /\ UNCHANGED << params, input, poly >>

\* ---- inputs

Degrees == 0 .. MaxDegree
\* The draws of F::rand for the coefficients 1 .. degree-1 of commit, from D.
RandStreams(n, D) == [1 .. n -> D]
\* How many coefficients commit draws under the current params.
NumDraws == IF IsOk(params) /\ params.val.degree > 0 THEN params.val.degree - 1 ELSE 0
\* Secrets, coefficient draws, points and challenges of the protocol sessions.
Secrets == F
Draws == {0, 1}
Points == {0, 1, 2}
Challenges == {0, 1}
\* Credentials accumulated in the protocol sessions.
Creds == {1, 2}
CredSlices == UNION { [1 .. n -> Creds] : n \in 0 .. MaxCreds }
\* Coefficient draws of the reconstruction sessions.
ReconDraws == {0, 1, 4}

NoFault == [setup |-> FALSE, trim |-> FALSE, commit |-> FALSE,
            open |-> FALSE, check |-> FALSE]

\* What a verifier may be handed: an issued share, or one claiming value 0.
Forged(sh) == {sh, [sh EXCEPT !.value = 0]}
Presented == UNION { Forged(shares[i]) : i \in 1 .. Len(shares) }

\* ---- the protocol sessions, with a service that may fail any call

Next ==
    \/ \E d \in Degrees, f1, f2 \in BOOLEAN :
          Setup(d, [setup |-> f1, trim |-> f2])
    \/ \E d \in Degrees, f1, f2 \in BOOLEAN :
          AccSetup(d, [setup |-> f1, trim |-> f2])
    \/ \E s \in Secrets, f \in BOOLEAN :
          \E r \in RandStreams(NumDraws, Draws) :
             Commit(s, [rand |-> r, commit |-> f])
    \/ \E c \in CredSlices, f \in BOOLEAN : AccCommit(c, [commit |-> f])
    \/ \E x \in Points, ch \in Challenges, f \in BOOLEAN :
          GetShare(x, [ch |-> ch, open |-> f], MaxShares)
    \/ \E x \in Points, ch \in Challenges, f \in BOOLEAN :
          CreateWitness(x, [ch |-> ch, open |-> f], MaxShares)
    \/ \E sh \in Presented, f \in BOOLEAN : Check(sh, [check |-> f])
    \/ \E sh \in Presented, f \in BOOLEAN : AccCheck(sh, [check |-> f])

Spec == Init /\ [][Next]_vars

\* ---- dealing and reconstruction, with a service that never fails

NextRecon ==
    \/ \E d \in Degrees : Setup(d, NoFault)
    \/ \E s \in F :
          \E r \in RandStreams(NumDraws, ReconDraws) :
             Commit(s, [rand |-> r, commit |-> FALSE])
    \/ \E x \in F : GetShare(x, [ch |-> 0, open |-> FALSE], MaxCollected)
    \/ Reconstruct

SpecRecon == Init /\ [][NextRecon]_vars

\* ---- the same, with at most one share corrupted before reconstruction

Honest(sh) == IsOk(poly) /\ sh.value = evaluate(poly.val.polynomial, sh.point)

NextHazard ==
    \/ \E d \in Degrees : Setup(d, NoFault)
    \/ \E s \in Secrets :
          \E r \in RandStreams(NumDraws, Draws) :
             Commit(s, [rand |-> r, commit |-> FALSE])
    \/ \E x \in F : GetShare(x, [ch |-> 0, open |-> FALSE], MaxCollected)
    \/ \E i \in 1 .. Len(shares), v \in F :
          /\ \A j \in 1 .. Len(shares) : Honest(shares[j])
          /\ Corrupt(i, v)
    \/ Reconstruct

SpecHazard == Init /\ [][NextHazard]_vars

\* ------------------------------------------------------------------ claims

DistinctPoints(shs) ==
    \A i, j \in 1 .. Len(shs) : i # j => shs[i].point # shs[j].point

Reconstructed == last # None /\ last.op = "EVSS::reconstruct"

\* C1. Round trip: after commit(params, s) with params.degree >= 2, reconstruct
\* over at least `degree` shares issued by get_share at pairwise distinct
\* points returns exactly s.
C1_RoundTrip ==
    ( /\ Reconstructed
      /\ params.val.degree >= 2
      /\ Len(last.arg) >= params.val.degree
      /\ DistinctPoints(last.arg)
      /\ \A i \in 1 .. Len(last.arg) : Honest(last.arg[i]) )
    => last.out.result = input.secret

C1_Witness ==
    /\ Reconstructed
    /\ params.val.degree = 3
    /\ Len(poly.val.polynomial) = 3
    /\ Len(last.arg) = 3
    /\ DistinctPoints(last.arg)
    /\ \A i \in 1 .. 3 : last.arg[i].point # 0
    /\ input.secret = 2
    /\ last.out.result = 2

\* Two shares of shs have the same point and different values.
ConflictingDuplicate(shs) ==
    \E i, j \in 1 .. Len(shs) :
        shs[i].point = shs[j].point /\ shs[i].value # shs[j].value

\* C5 (as claimed). reconstruct over a collection that holds two shares with the
\* same point and different values does not return a field element: it raises
\* the reconstruction hazard error.
C5_HazardRaised ==
    (Reconstructed /\ ConflictingDuplicate(last.arg)) => last.out.result \notin F

\* C9 (as claimed, for degree >= 1 and at least one share). reconstruct returns
\* the secret if and only if at least `degree` shares at distinct points are
\* supplied; fewer honest shares at distinct points give another field element.
C9_ExactThreshold ==
    ( /\ Reconstructed
      /\ params.val.degree >= 1
      /\ Len(last.arg) >= 1 )
    => /\ (last.out.result = input.secret)
            <=> (Len(last.arg) >= params.val.degree /\ DistinctPoints(last.arg))
       /\ (Len(last.arg) < params.val.degree /\ DistinctPoints(last.arg))
            => last.out.result # input.secret

\* C9 (amended). For degree >= 1, reconstruct returns the secret whenever at least
\* `degree` shares at distinct points are supplied; in every case it returns a
\* field element, which for fewer shares may or may not be the secret: over
\* degree-1 shares at distinct points it is the secret exactly when one of the
\* points is 0 or the highest coefficient drawn is 0.
C9_Threshold ==
    ( /\ Reconstructed
      /\ params.val.degree >= 1 )
    => /\ last.out.result \in F
       /\ (Len(last.arg) >= params.val.degree /\ DistinctPoints(last.arg))
            => last.out.result = input.secret
       /\ (Len(last.arg) = params.val.degree - 1 /\ DistinctPoints(last.arg))
            => ( (last.out.result = input.secret)
                 <=> \/ \E i \in 1 .. Len(last.arg) : last.arg[i].point = 0
                     \/ Len(poly.val.polynomial) < params.val.degree )

C9_Witness ==
    /\ Reconstructed
    /\ params.val.degree = 3
    /\ Len(last.arg) = 2
    /\ DistinctPoints(last.arg)
    /\ last.out.result \in F
    /\ last.out.result # input.secret

\* The values get_share hands out at the points of shs under polynomial q
\* are the values of shs.
SameShares(shs, q) ==
    \A i \in 1 .. Len(shs) :
        EVSS_get_share(shs[i].point, params.val, q, [ch |-> 0, open |-> FALSE])
            .result.val.value = shs[i].value

\* Another secret s2 has coefficient draws under which commit and get_share
\* hand out the shares shs.
Explains(s2, shs) ==
    \E r \in RandStreams(params.val.degree - 1, F) :
        LET c == EVSS_commit(params.val, s2, [rand |-> r, commit |-> FALSE])
        IN  c.result.ok /\ SameShares(shs, c.result.val)

HidingCase ==
    /\ IsOk(poly)
    /\ params.val.degree >= 2
    /\ Len(shares) = params.val.degree - 1
    /\ DistinctPoints(shares)

\* C6 (as claimed). For degree >= 2 and every set of degree-1 pairwise distinct
\* points, every other secret has coefficient draws giving the same share values
\* at all of these points.
C6_HidingAnyPoints ==
    HidingCase => \A s2 \in F \ {input.secret} : Explains(s2, shares)

\* C6 (amended). For degree >= 2 and every set of degree-1 pairwise distinct
\* nonzero points, every other secret has coefficient draws giving the same share
\* values at all of these points: degree-1 share values at nonzero points never
\* determine the secret.
C6_Hiding ==
    (HidingCase /\ \A i \in 1 .. Len(shares) : shares[i].point # 0)
    => \A s2 \in F \ {input.secret} : Explains(s2, shares)

C6_Witness ==
    /\ HidingCase
    /\ params.val.degree = 3
    /\ Len(poly.val.polynomial) = 3
    /\ \A i \in 1 .. Len(shares) : shares[i].point # 0
    /\ \A s2 \in F \ {input.secret} : Explains(s2, shares)

\* ---- the protocol sessions

Issued == { shares[i] : i \in 1 .. Len(shares) }
EvssSession == IsOk(poly) /\ input.kind = "secret"
AccSession == IsOk(poly) /\ input.kind = "cred"
Accumulated == { input.cred[i] : i \in 1 .. Len(input.cred) }
Did(op) == last # None /\ last.op = op

\* The verdict of a verifier holding the public params and the public commitment,
\* when the service does not fail.
Verdict(sh) ==
    EVSS_check(get_public_params(params.val), get_commit(poly.val), sh, NoFault).result

\* C2. After setup and commit and any sequence of get_share calls (any points,
\* repeated points included), every share issued so far has value =
\* polynomial(point) and passes check against the public params and the public
\* commitment; a check of an issued share that the service completes says true.
C2_IssuedSharesVerify ==
    /\ EvssSession =>
          \A sh \in Issued :
              /\ sh.value = evaluate(poly.val.polynomial, sh.point)
              /\ Verdict(sh) = Ok(TRUE)
    /\ (Did("EVSS::check") /\ last.arg \in Issued /\ ~last.env.check)
          => last.out.result = Ok(TRUE)

C2_Witness ==
    /\ EvssSession
    /\ Did("EVSS::check")
    /\ Len(shares) = 2
    /\ shares[1].point = shares[2].point
    /\ shares[1].challenge # shares[2].challenge
    /\ Len(poly.val.polynomial) = 3
    /\ last.arg = shares[1]
    /\ last.out.result = Ok(TRUE)

AccVerdict(w) ==
    Biaccumulator_check(get_public_params(params.val), get_commit(poly.val),
                        w, NoFault).result

\* C3. For a credential set committed with Biaccumulator::commit, check on the
\* witness create_witness returns for c says true for every c of the set and
\* false for every c outside it.
C3_Membership ==
    /\ AccSession =>
          \A w \in Issued : AccVerdict(w) = Ok(w.point \in Accumulated)
    /\ (Did("Biaccumulator::check") /\ last.arg \in Issued /\ ~last.env.check)
          => last.out.result = Ok(last.arg.point \in Accumulated)

C3_Witness ==
    /\ AccSession
    /\ Did("Biaccumulator::check")
    /\ Len(input.cred) = 2
    /\ Len(shares) = 2
    /\ shares[1].point \in Accumulated
    /\ AccVerdict(shares[1]) = Ok(TRUE)
    /\ shares[2].point \notin Accumulated
    /\ last.arg = shares[2]
    /\ last.out.result = Ok(FALSE)

C8_FastReject ==
    Did("Biaccumulator::check") =>
        LET w == last.arg
        IN  /\ w.value # 0 =>
                  /\ last.out.result = Ok(FALSE)
                  /\ last.out.calls = << >>
            /\ (w.value # 0 /\ w \in Issued) => Verdict(w) = Ok(TRUE)
            /\ w.value = 0 =>
                  /\ Len(last.out.calls) = 1
                  /\ last.out.calls[1].op = "check"
                  /\ last.out.result = last.out.calls[1].res
                  /\ last.out.result =
                        PC_check(params.val.verifier_key, poly.val.commit, w.point,
                                 w.value, w.proof, w.challenge, last.env.check)

C8_Witness ==
    /\ Did("Biaccumulator::check")
    /\ last.arg \in Issued
    /\ last.arg.value # 0
    /\ Verdict(last.arg) = Ok(TRUE)
    /\ last.out.result = Ok(FALSE)
    /\ last.out.calls = << >>

\* ---- error propagation

Setups == {"EVSS::setup", "Biaccumulator::setup"}
Commits == {"EVSS::commit", "Biaccumulator::commit"}
Openings == {"EVSS::get_share", "Biaccumulator::create_witness"}
Checks == {"EVSS::check", "Biaccumulator::check"}
ServiceOps == Setups \cup Commits \cup Openings \cup Checks

\* What the last operation's calls and result must look like.
Propagated ==
    (last # None /\ last.op \in ServiceOps) =>
        LET calls == last.out.calls
            res == last.out.result
        IN  \* a failed call is the last call, and its error is the result
            /\ \A k \in 1 .. Len(calls) :
                  ~calls[k].res.ok => (k = Len(calls) /\ res = calls[k].res)
            \* no call is made twice
            /\ \A j, k \in 1 .. Len(calls) : j # k => calls[j].op # calls[k].op
            \* an error is an error of the service
            /\ ~res.ok => (calls # << >> /\ res = calls[Len(calls)].res)
            \* nothing is produced from an error
            /\ last.op \in Setups => params = res
            /\ last.op \in Commits => poly = res
            \* a verdict is the service's, or the accumulator's fast reject
            /\ last.op = "EVSS::check" => (Len(calls) = 1 /\ res = calls[1].res)
            /\ last.op = "Biaccumulator::check" =>
                  \/ calls = << >> /\ res = Ok(FALSE) /\ last.arg.value # 0
                  \/ Len(calls) = 1 /\ res = calls[1].res

\* A step that ends in an error leaves the Vec of shares as it was; a step that
\* issues a share appends exactly the share returned.
PropagatedStep ==
    /\ (last'.op \in Openings /\ ~last'.out.result.ok) => shares' = shares
    /\ (last'.op \in Openings /\ last'.out.result.ok)
          => shares' = Append(shares, last'.out.result.val)
    /\ last'.op \in (Setups \cup Commits \cup Checks) => shares' = shares

\* C10. Whenever the service's setup, trim, commit, open or check returns an
\* error, the calling operation returns that same error, makes no further call
\* and produces no params, polynomial, share or verdict; a failed verification
\* is Ok(false), never an error, and an error is never Ok(false).
C10_ErrorPropagation == [](Propagated) /\ [][PropagatedStep]_vars

C10_Witness ==
    /\ Did("EVSS::get_share")
    /\ Len(shares) = 1
    /\ last.out.result = Err("OpenError")
    /\ last.out.calls = << Call("open", Err("OpenError")) >>

\* ---- dealing, verification and reconstruction, with a service that never fails

NextZero ==
    \/ \E d \in Degrees : Setup(d, NoFault)
    \/ \E s \in Secrets :
          \E r \in RandStreams(NumDraws, Draws) :
             Commit(s, [rand |-> r, commit |-> FALSE])
    \/ \E x \in F : GetShare(x, [ch |-> 0, open |-> FALSE], MaxCollected)
    \/ \E sh \in Issued : Check(sh, [check |-> FALSE])
    \/ Reconstruct

SpecZero == Init /\ [][NextZero]_vars

\* C11. get_share puts no restriction on the point, and for params.degree >= 1
\* the constant coefficient of the committed polynomial is the secret: get_share
\* at point 0 succeeds with a share whose value is the secret, that share passes
\* check, and reconstruct over that one share alone returns the secret.
C11_PointZero ==
    (EvssSession /\ params.val.degree >= 1) =>
        /\ evaluate(poly.val.polynomial, 0) = input.secret
        /\ (Did("EVSS::get_share") /\ last.arg = 0) =>
              /\ last.out.result.ok
              /\ last.out.result.val.point = 0
              /\ last.out.result.val.value = input.secret
              /\ shares[Len(shares)] = last.out.result.val
        /\ \A sh \in Issued : sh.point = 0 =>
              /\ sh.value = input.secret
              /\ Verdict(sh) = Ok(TRUE)
              /\ EVSS_reconstruct(<< sh >>) = input.secret
        /\ (Did("EVSS::check") /\ last.arg.point = 0) => last.out.result = Ok(TRUE)
        /\ (Did("EVSS::reconstruct") /\ Len(last.arg) = 1 /\ last.arg[1].point = 0)
              => last.out.result = input.secret

C11_Witness ==
    /\ EvssSession
    /\ params.val.degree = 3
    /\ Len(poly.val.polynomial) = 3
    /\ input.secret = 3
    /\ Did("EVSS::reconstruct")
    /\ Len(last.arg) = 1
    /\ last.arg[1].point = 0
    /\ last.arg[1].value = 3
    /\ Verdict(last.arg[1]) = Ok(TRUE)
    /\ last.out.result = 3

====
